---- MODULE Spec2Model ----
(***************************************************************************)
(* typepki-oiddb: the OIDDataBase registry (five mapping tables plus the   *)
(* list of registered set names), its registration operation and its       *)
(* lookup methods.                                                         *)
(*                                                                         *)
(* The repository holds three revisions of the class:                      *)
(*   src/src/index.mts      nametooid-keyed data sets, lookups without a   *)
(*                          useUndef flag;                                 *)
(*   src/unnamed/part_003   the same registration code, lookups with the   *)
(*                          optional useUndef flag and self-fallback;      *)
(*   src/unnamed/part_004   oidtoname-keyed data sets.                     *)
(* regist/registOne/nametooid/shorttooid/aliasto are textually the same in *)
(* index.mts and part_003; the operators below without a suffix model      *)
(* index.mts, those ending in _003 model part_003, those ending in _004    *)
(* part_004.                                                               *)
(*                                                                         *)
(* A JavaScript Record<string,string> held by the registry is a function   *)
(* from its own keys to their values; reading a missing key gives          *)
(* Undefined.  The record of a data set is the sequence of its (key,value) *)
(* pairs in enumeration order (for..in), keys distinct.  All strings are   *)
(* taken outside Object.prototype's property names.                        *)
(***************************************************************************)
EXTENDS Naturals, Sequences, FiniteSets, TLC

VARIABLES
    _instance,       \* static field: 0 while undefined, else the number of the object
    created,         \* how many OIDDataBase objects the constructor has built
    _uuid,           \* 0 for the initial "", else the UUID drawn for the object
    _dbOID2NAME,     \* OID -> name
    _dbNAME2OID,     \* name -> OID
    _dbSHORT2NAME,   \* short -> name
    _dbNAME2SHORT,   \* name -> short
    _dbALIAS,        \* alias -> name
    _setlist,        \* sequence of registered set names
    ret,             \* the lookup call the client has made and the value it got
    merged,          \* history (kept under SpecHistory): the set names of the
                     \* data sets registOne has merged
    pairs            \* history (kept under SpecPairs): the (name, oid) pairs of
                     \* the data sets registOne has merged

tables == <<_dbOID2NAME, _dbNAME2OID, _dbSHORT2NAME, _dbNAME2SHORT, _dbALIAS>>
vars == <<_instance, created, _uuid, _dbOID2NAME, _dbNAME2OID, _dbSHORT2NAME,
          _dbNAME2SHORT, _dbALIAS, _setlist, ret, merged, pairs>>

-----------------------------------------------------------------------------
(* Bounds and the universes the inputs are drawn from *)

MaxList == 2      \* data sets in one datasetList
MaxEntries == 2   \* entries (pairs, shorts, aliases) one datasetList carries in all

Names == {"n1", "n2"}
Oids == {"o1", "o2"}
Shorts == {"s1", "s2"}
AliasKeys == {"a1", "n1"}      \* "n1" is both a name and an alias key
SetNames == {"A", "B"}

Undefined == "undefined"
Empty == [k \in {} |-> Undefined]

-----------------------------------------------------------------------------
(* Record<string,string> *)

\* rec[key] in JavaScript
Get(rec, key) == IF key \in DOMAIN rec THEN rec[key] ELSE Undefined

\* rec[key] = val
Put(rec, key, val) ==
    [k \in (DOMAIN rec) \cup {key} |-> IF k = key THEN val ELSE rec[k]]

\* the object the methods run on
this == [_dbOID2NAME |-> _dbOID2NAME, _dbNAME2OID |-> _dbNAME2OID,
         _dbSHORT2NAME |-> _dbSHORT2NAME, _dbNAME2SHORT |-> _dbNAME2SHORT,
         _dbALIAS |-> _dbALIAS, _setlist |-> _setlist]

\* the fields of an object as the constructor leaves them
Fresh == [_dbOID2NAME |-> Empty, _dbNAME2OID |-> Empty, _dbSHORT2NAME |-> Empty,
          _dbNAME2SHORT |-> Empty, _dbALIAS |-> Empty, _setlist |-> <<>>]

\* the five tables of an object
Tables(self) == <<self._dbOID2NAME, self._dbNAME2OID, self._dbSHORT2NAME,
                  self._dbNAME2SHORT, self._dbALIAS>>

includes(list, x) == \E i \in 1..Len(list) : list[i] = x

-----------------------------------------------------------------------------
(* Data sets *)

\* sequences of n (key, value) pairs with distinct keys
PairSeqs(K, V, n) ==
    {s \in [1..n -> K \X V] : \A i, j \in 1..n : i # j => s[i][1] # s[j][1]}

\* an optional property of a data set: absent when it has no entries
Optional(field, rec) == IF rec = <<>> THEN <<>> ELSE field :> rec

\* dataset[field] !== undefined
Defined(dataset, field) == field \in DOMAIN dataset

\* the data sets with set name sn carrying exactly e entries
OIDDataSet(sn, e) ==
    UNION {UNION {
        {[setname |-> sn, nametooid |-> p]
            @@ Optional("shorttoname", s) @@ Optional("alias", a) :
            p \in PairSeqs(Names, Oids, np),
            s \in PairSeqs(Shorts, Names, ns),
            a \in PairSeqs(AliasKeys, Names, e - np - ns)}
        : ns \in 0..(e - np)} : np \in 0..e}

\* the lists of n data sets, each carrying at least one entry and all of them
\* together at most e
RECURSIVE DataSetLists(_, _)
DataSetLists(n, e) ==
    IF n = 0 THEN {<<>>}
    ELSE UNION {UNION {
        {<<d>> \o t : d \in OIDDataSet(sn, k), t \in DataSetLists(n - 1, e - k)}
        : k \in 1..e} : sn \in SetNames}

RegistArgs == UNION {DataSetLists(n, MaxEntries) : n \in 0..MaxList}

\* the data sets a datasetList can hold
DataSets == UNION {OIDDataSet(sn, e) : sn \in SetNames, e \in 1..MaxEntries}

\* the (name, oid) pairs of the data sets of a list, in the order regist meets them
RECURSIVE pairsOf(_)
pairsOf(datasetList) ==
    IF datasetList = <<>> THEN <<>>
    ELSE Head(datasetList).nametooid \o pairsOf(Tail(datasetList))

-----------------------------------------------------------------------------
(* Registration: src/src/index.mts 153-179 (= src/unnamed/part_003 170-196) *)

\* mergeName without the two "in" tests: every pair overwrites
mergeName_overwrite(self, name, oid) ==
    [self EXCEPT !._dbNAME2OID = Put(@, name, oid),
                 !._dbOID2NAME = Put(@, oid, name)]

\* mergeName with the second test chained to the first by "else"
mergeName_elseif(self, name, oid) ==
    IF name \notin DOMAIN self._dbNAME2OID
    THEN [self EXCEPT !._dbNAME2OID = Put(@, name, oid)]
    ELSE IF oid \notin DOMAIN self._dbOID2NAME
         THEN [self EXCEPT !._dbOID2NAME = Put(@, oid, name)] ELSE self

\* mergeName with the OID test nested in the name test: the pair goes in as a
\* unit keyed on the name
mergeName_unit(self, name, oid) ==
    IF name \notin DOMAIN self._dbNAME2OID
    THEN LET s1 == [self EXCEPT !._dbNAME2OID = Put(@, name, oid)]
         IN  IF oid \notin DOMAIN s1._dbOID2NAME
             THEN [s1 EXCEPT !._dbOID2NAME = Put(@, oid, name)] ELSE s1
    ELSE self

\* one turn of the nametooid loop
mergeName(self, name, oid) ==
    LET s1 == IF name \notin DOMAIN self._dbNAME2OID
              THEN [self EXCEPT !._dbNAME2OID = Put(@, name, oid)] ELSE self
    IN  IF oid \notin DOMAIN s1._dbOID2NAME
        THEN [s1 EXCEPT !._dbOID2NAME = Put(@, oid, name)] ELSE s1

\* mergeShort with the second test chained to the first by "else"
mergeShort_elseif(self, short, name) ==
    IF short \notin DOMAIN self._dbSHORT2NAME
    THEN [self EXCEPT !._dbSHORT2NAME = Put(@, short, name)]
    ELSE IF name \notin DOMAIN self._dbNAME2SHORT
         THEN [self EXCEPT !._dbNAME2SHORT = Put(@, name, short)] ELSE self

\* one turn of the shorttoname loop
mergeShort(self, short, name) ==
    LET s1 == IF short \notin DOMAIN self._dbSHORT2NAME
              THEN [self EXCEPT !._dbSHORT2NAME = Put(@, short, name)] ELSE self
    IN  IF name \notin DOMAIN s1._dbNAME2SHORT
        THEN [s1 EXCEPT !._dbNAME2SHORT = Put(@, name, short)] ELSE s1

\* mergeAlias without the "in" test: a later alias re-binds the key
mergeAlias_overwrite(self, alias, origin) ==
    [self EXCEPT !._dbALIAS = Put(@, alias, origin)]

\* mergeAlias that takes an alias only when its target has an OID
mergeAlias_checked(self, alias, origin) ==
    IF alias \notin DOMAIN self._dbALIAS /\ origin \in DOMAIN self._dbNAME2OID
    THEN [self EXCEPT !._dbALIAS = Put(@, alias, origin)] ELSE self

\* one turn of the alias loop
mergeAlias(self, alias, origin) ==
    IF alias \notin DOMAIN self._dbALIAS
    THEN [self EXCEPT !._dbALIAS = Put(@, alias, origin)] ELSE self

RECURSIVE forNametooid(_, _)
forNametooid(self, rec) ==
    IF rec = <<>> THEN self
    ELSE forNametooid(mergeName(self, Head(rec)[1], Head(rec)[2]), Tail(rec))

RECURSIVE forShorttoname(_, _)
forShorttoname(self, rec) ==
    IF rec = <<>> THEN self
    ELSE forShorttoname(mergeShort(self, Head(rec)[1], Head(rec)[2]), Tail(rec))

RECURSIVE forAlias(_, _)
forAlias(self, rec) ==
    IF rec = <<>> THEN self
    ELSE forAlias(mergeAlias(self, Head(rec)[1], Head(rec)[2]), Tail(rec))

\* whether registOne returns at once
skips(self, dataset) == includes(self._setlist, dataset.setname)

registOne(self, dataset) ==
    IF skips(self, dataset) THEN self
    ELSE LET s1 == forNametooid(self, dataset.nametooid)
             s2 == IF Defined(dataset, "shorttoname")
                   THEN forShorttoname(s1, dataset.shorttoname) ELSE s1
         IN  IF Defined(dataset, "alias")
             THEN forAlias(s2, dataset.alias) ELSE s2

\* regist walking the list from its end
RECURSIVE regist_reverse(_, _)
regist_reverse(self, datasetList) ==
    IF datasetList = <<>> THEN self
    ELSE registOne(regist_reverse(self, Tail(datasetList)), Head(datasetList))

RECURSIVE regist(_, _)
regist(self, datasetList) ==
    IF datasetList = <<>> THEN self
    ELSE regist(registOne(self, Head(datasetList)), Tail(datasetList))

\* the calls regist([D1]), ..., regist([Dn]) made one after another
RECURSIVE oneByOne(_, _)
oneByOne(self, datasetList) ==
    IF datasetList = <<>> THEN self
    ELSE oneByOne(regist(self, <<Head(datasetList)>>), Tail(datasetList))

\* the (key, value) entries a data set brings for the i-th of the five tables
entriesFor(dataset, i) ==
    LET rec(field) == IF Defined(dataset, field) THEN dataset[field] ELSE <<>>
        direct(r) == {<<r[n][1], r[n][2]>> : n \in 1..Len(r)}
        back(r) == {<<r[n][2], r[n][1]>> : n \in 1..Len(r)}
    IN  CASE i = 1 -> back(rec("nametooid"))
          [] i = 2 -> direct(rec("nametooid"))
          [] i = 3 -> direct(rec("shorttoname"))
          [] i = 4 -> back(rec("shorttoname"))
          [] i = 5 -> direct(rec("alias"))

\* for each table and each key the list brings for it: the values the first
\* data set of the list that brings the key gives it, as <<table, key, values>>
firstWriters(datasetList) ==
    UNION {UNION {
        {<<t, e[1], {f[2] : f \in {g \in entriesFor(datasetList[i], t) : g[1] = e[1]}}>> :
            e \in {g \in entriesFor(datasetList[i], t) :
                    \A m \in 1..(i - 1) :
                        \A f \in entriesFor(datasetList[m], t) : f[1] # g[1]}}
        : i \in 1..Len(datasetList)} : t \in 1..5}

\* the lists regist is called with, each with its first writers
RegistArgsWriters == {<<datasetList, firstWriters(datasetList)>> : datasetList \in RegistArgs}

\* the pairs <<A, B>> of data sets with different set names that share no key
\* of any of the five tables: no name, OID, short, short-target name or alias
\* key; B is a data set named "B" with one entry
DisjointDataSets ==
    {p \in DataSets \X OIDDataSet("B", 1) :
        /\ p[1].setname # p[2].setname
        /\ \A t \in 1..5 : \A e \in entriesFor(p[1], t) : \A f \in entriesFor(p[2], t) :
                e[1] # f[1]}

-----------------------------------------------------------------------------
(* Lookups of src/src/index.mts *)

oidtoname(self, oid) == Get(self._dbOID2NAME, oid)

\* nametooid that resolves the alias of an alias as well
nametooid_chain(self, name) ==
    LET name2 == IF Get(self._dbALIAS, name) # Undefined
                 THEN Get(self._dbALIAS, name) ELSE name
        name3 == IF Get(self._dbALIAS, name2) # Undefined
                 THEN Get(self._dbALIAS, name2) ELSE name2
    IN  Get(self._dbNAME2OID, name3)

\* nametooid without the alias step
nametooid_noalias(self, name) == Get(self._dbNAME2OID, name)

nametooid(self, name) ==
    LET name2 == IF Get(self._dbALIAS, name) # Undefined
                 THEN Get(self._dbALIAS, name) ELSE name
    IN  Get(self._dbNAME2OID, name2)

shorttoname(self, short) == Get(self._dbSHORT2NAME, short)

nametoshort(self, name) == Get(self._dbNAME2SHORT, name)

oidtoshort(self, oid) ==
    LET name == Get(self._dbOID2NAME, oid) IN
    IF name = Undefined THEN oid
    ELSE LET short == Get(self._dbNAME2SHORT, name) IN
         IF short = Undefined THEN name ELSE short

\* shorttooid with the self-fallback of the other lookups on the first miss
shorttooid_echo(self, short) ==
    LET name == Get(self._dbSHORT2NAME, short) IN
    IF name = Undefined THEN short ELSE Get(self._dbNAME2OID, name)

shorttooid(self, short) ==
    LET name == Get(self._dbSHORT2NAME, short) IN
    IF name = Undefined THEN name ELSE Get(self._dbNAME2OID, name)

aliasto(self, aliasfrom) == Get(self._dbALIAS, aliasfrom)

(* Lookups of src/unnamed/part_003, where they differ: the useUndef flag *)

oidtoname_003(self, oid, useUndef) ==
    LET name == Get(self._dbOID2NAME, oid) IN
    IF name # Undefined THEN name
    ELSE IF useUndef THEN Undefined ELSE oid

shorttoname_003(self, short, useUndef) ==
    LET name == Get(self._dbSHORT2NAME, short) IN
    IF name # Undefined THEN name
    ELSE IF useUndef THEN Undefined ELSE short

nametoshort_003(self, name, useUndef) ==
    LET short == Get(self._dbNAME2SHORT, name) IN
    IF short # Undefined THEN short
    ELSE IF useUndef THEN Undefined ELSE name

oidtoshort_003(self, oid, useUndef) ==
    LET name == Get(self._dbOID2NAME, oid) IN
    IF name = Undefined THEN (IF useUndef THEN Undefined ELSE oid)
    ELSE LET short == Get(self._dbNAME2SHORT, name) IN
         IF short = Undefined THEN name ELSE short

-----------------------------------------------------------------------------
(* The state machine *)

\* the arguments the client passes to the lookups
OidArgs == Oids
NameArgs == Names \cup AliasKeys
ShortArgs == Shorts

\* a lookup call and its result; useUndef is the second argument the caller
\* passed (index.mts's methods take one parameter and ignore it)
Call(op, rev, arg, useUndef, value) ==
    [op |-> op, rev |-> rev, arg |-> arg, useUndef |-> useUndef, value |-> value]

NoCall == Call("none", "", "", FALSE, "")

\* before the first access there is no object: the field variables hold the
\* initializers' values
Init ==
    /\ _instance = 0
    /\ created = 0
    /\ _uuid = 0
    /\ _dbOID2NAME = Fresh._dbOID2NAME
    /\ _dbNAME2OID = Fresh._dbNAME2OID
    /\ _dbSHORT2NAME = Fresh._dbSHORT2NAME
    /\ _dbNAME2SHORT = Fresh._dbNAME2SHORT
    /\ _dbALIAS = Fresh._dbALIAS
    /\ _setlist = Fresh._setlist
    /\ ret = NoCall
    /\ merged = {}
    /\ pairs = {}

\* the getter without the "if (!this._instance)" test: every access builds an
\* object
instance_renew ==
    /\ ret = NoCall
    /\ created' = created + 1
    /\ _instance' = created + 1
    /\ _uuid' = created + 1
    /\ _dbOID2NAME' = Fresh._dbOID2NAME
    /\ _dbNAME2OID' = Fresh._dbNAME2OID
    /\ _dbSHORT2NAME' = Fresh._dbSHORT2NAME
    /\ _dbNAME2SHORT' = Fresh._dbNAME2SHORT
    /\ _dbALIAS' = Fresh._dbALIAS
    /\ _setlist' = Fresh._setlist
    /\ UNCHANGED <<ret, merged, pairs>>

\* static get instance(): builds the object on first use
instance ==
    /\ ret = NoCall
    /\ IF _instance = 0
       THEN /\ created' = created + 1
            /\ _instance' = created + 1
            /\ _uuid' = created + 1          \* crypto.randomUUID(): a fresh value
            /\ _dbOID2NAME' = Fresh._dbOID2NAME
            /\ _dbNAME2OID' = Fresh._dbNAME2OID
            /\ _dbSHORT2NAME' = Fresh._dbSHORT2NAME
            /\ _dbNAME2SHORT' = Fresh._dbNAME2SHORT
            /\ _dbALIAS' = Fresh._dbALIAS
            /\ _setlist' = Fresh._setlist
       ELSE UNCHANGED <<_instance, created, _uuid, tables, _setlist>>
    /\ UNCHANGED <<ret, merged, pairs>>

\* oiddb.regist(datasetList)
Regist(datasetList) ==
    /\ _instance # 0
    /\ ret = NoCall
    /\ \E r \in {regist(this, datasetList)} :
        /\ _dbOID2NAME' = r._dbOID2NAME
        /\ _dbNAME2OID' = r._dbNAME2OID
        /\ _dbSHORT2NAME' = r._dbSHORT2NAME
        /\ _dbNAME2SHORT' = r._dbNAME2SHORT
        /\ _dbALIAS' = r._dbALIAS
        /\ _setlist' = r._setlist
    /\ UNCHANGED <<_instance, created, _uuid, ret>>

\* a lookup leaves the object alone and hands its value to the client
Returns(call) ==
    /\ _instance # 0
    /\ ret = NoCall
    /\ ret' = call
    /\ UNCHANGED <<_instance, created, _uuid, tables, _setlist, merged, pairs>>

Lookup_oidtoname ==
    \E oid \in OidArgs, u \in BOOLEAN :
        Returns(Call("oidtoname", "index.mts", oid, u, oidtoname(this, oid)))
Lookup_nametooid ==
    \E name \in NameArgs :
        Returns(Call("nametooid", "index.mts", name, FALSE, nametooid(this, name)))
Lookup_shorttoname ==
    \E short \in ShortArgs, u \in BOOLEAN :
        Returns(Call("shorttoname", "index.mts", short, u, shorttoname(this, short)))
Lookup_nametoshort ==
    \E name \in Names, u \in BOOLEAN :
        Returns(Call("nametoshort", "index.mts", name, u, nametoshort(this, name)))
Lookup_oidtoshort ==
    \E oid \in OidArgs, u \in BOOLEAN :
        Returns(Call("oidtoshort", "index.mts", oid, u, oidtoshort(this, oid)))
Lookup_shorttooid ==
    \E short \in ShortArgs :
        Returns(Call("shorttooid", "index.mts", short, FALSE, shorttooid(this, short)))
Lookup_aliasto ==
    \E a \in NameArgs :
        Returns(Call("aliasto", "index.mts", a, FALSE, aliasto(this, a)))

Lookup_oidtoname_003 ==
    \E oid \in OidArgs, u \in BOOLEAN :
        Returns(Call("oidtoname", "part_003", oid, u, oidtoname_003(this, oid, u)))
Lookup_shorttoname_003 ==
    \E short \in ShortArgs, u \in BOOLEAN :
        Returns(Call("shorttoname", "part_003", short, u, shorttoname_003(this, short, u)))
Lookup_nametoshort_003 ==
    \E name \in Names, u \in BOOLEAN :
        Returns(Call("nametoshort", "part_003", name, u, nametoshort_003(this, name, u)))
Lookup_oidtoshort_003 ==
    \E oid \in OidArgs, u \in BOOLEAN :
        Returns(Call("oidtoshort", "part_003", oid, u, oidtoshort_003(this, oid, u)))

\* the client has read the value and goes on
Resume ==
    /\ ret # NoCall
    /\ ret' = NoCall
    /\ UNCHANGED <<_instance, created, _uuid, tables, _setlist, merged, pairs>>

\* history: the set names of the data sets of the list that registOne does not
\* skip
RECURSIVE mergedBy(_, _)
mergedBy(self, datasetList) ==
    IF datasetList = <<>> THEN {}
    ELSE (IF skips(self, Head(datasetList)) THEN {} ELSE {Head(datasetList).setname})
         \cup mergedBy(registOne(self, Head(datasetList)), Tail(datasetList))

Next ==
    \/ instance
    \/ \E datasetList \in RegistArgs :
            Regist(datasetList) /\ UNCHANGED <<merged, pairs>>

Spec == Init /\ [][Next]_vars

\* the registry with the history of the merged set names
NextHistory ==
    \/ instance
    \/ \E datasetList \in DataSetLists(1, MaxEntries) :
            /\ Regist(datasetList)
            /\ merged' = merged \cup mergedBy(this, datasetList)
            /\ UNCHANGED pairs

SpecHistory == Init /\ [][NextHistory]_vars

\* history: the (name, oid) pairs of the data sets of the list that registOne
\* does not skip
RECURSIVE pairsMergedBy(_, _)
pairsMergedBy(self, datasetList) ==
    IF datasetList = <<>> THEN {}
    ELSE (IF skips(self, Head(datasetList)) THEN {}
          ELSE entriesFor(Head(datasetList), 2))
         \cup pairsMergedBy(registOne(self, Head(datasetList)), Tail(datasetList))

\* the registry with the history of the merged pairs
NextPairs ==
    \/ instance
    \/ \E datasetList \in DataSetLists(1, MaxEntries) :
            /\ Regist(datasetList)
            /\ pairs' = pairs \cup pairsMergedBy(this, datasetList)
            /\ UNCHANGED merged

SpecPairs == Init /\ [][NextPairs]_vars

\* the registry and a client that looks entries up
NextLookup ==
    \/ instance
    \/ \E datasetList \in DataSetLists(1, MaxEntries) :
            Regist(datasetList) /\ UNCHANGED <<merged, pairs>>
    \/ Lookup_oidtoname
    \/ Lookup_nametooid
    \/ Lookup_shorttoname
    \/ Lookup_nametoshort
    \/ Lookup_oidtoshort
    \/ Lookup_shorttooid
    \/ Lookup_aliasto
    \/ Lookup_oidtoname_003
    \/ Lookup_shorttoname_003
    \/ Lookup_nametoshort_003
    \/ Lookup_oidtoshort_003
    \/ Resume

SpecLookup == Init /\ [][NextLookup]_vars

-----------------------------------------------------------------------------
(* The oidtoname-keyed revision: src/unnamed/part_004 *)

\* the data sets of part_004 with set name sn carrying exactly e entries
OIDDataSet_004(sn, e) ==
    UNION {UNION {
        {[setname |-> sn, oidtoname |-> p]
            @@ Optional("shorttoname", s) @@ Optional("alias", a) :
            p \in PairSeqs(Oids, Names, np),
            s \in PairSeqs(Shorts, Names, ns),
            a \in PairSeqs(AliasKeys, Names, e - np - ns)}
        : ns \in 0..(e - np)} : np \in 0..e}

\* the lists of one data set regist is called with
RegistArgs_004 ==
    UNION {{<<d>> : d \in OIDDataSet_004(sn, e)} : sn \in SetNames, e \in 1..MaxEntries}

\* one turn of the oidtoname loop
mergeOid_004(self, oid, name) ==
    IF oid \in DOMAIN self._dbOID2NAME THEN self
    ELSE [self EXCEPT !._dbOID2NAME = Put(@, oid, name),
                      !._dbNAME2OID = Put(@, name, oid)]

\* one turn of the shorttoname loop
mergeShort_004(self, short, name) ==
    IF short \in DOMAIN self._dbSHORT2NAME THEN self
    ELSE [self EXCEPT !._dbSHORT2NAME = Put(@, short, name),
                      !._dbNAME2SHORT = Put(@, name, short)]

\* one turn of the alias loop
mergeAlias_004(self, alias, origin) ==
    IF alias \in DOMAIN self._dbALIAS THEN self
    ELSE [self EXCEPT !._dbALIAS = Put(@, alias, origin)]

RECURSIVE forOidtoname_004(_, _)
forOidtoname_004(self, rec) ==
    IF rec = <<>> THEN self
    ELSE forOidtoname_004(mergeOid_004(self, Head(rec)[1], Head(rec)[2]), Tail(rec))

RECURSIVE forShorttoname_004(_, _)
forShorttoname_004(self, rec) ==
    IF rec = <<>> THEN self
    ELSE forShorttoname_004(mergeShort_004(self, Head(rec)[1], Head(rec)[2]), Tail(rec))

RECURSIVE forAlias_004(_, _)
forAlias_004(self, rec) ==
    IF rec = <<>> THEN self
    ELSE forAlias_004(mergeAlias_004(self, Head(rec)[1], Head(rec)[2]), Tail(rec))

registOne_004(self, dataset) ==
    IF skips(self, dataset) THEN self
    ELSE LET s1 == forOidtoname_004(self, dataset.oidtoname)
             s2 == IF Defined(dataset, "shorttoname")
                   THEN forShorttoname_004(s1, dataset.shorttoname) ELSE s1
         IN  IF Defined(dataset, "alias")
             THEN forAlias_004(s2, dataset.alias) ELSE s2

RECURSIVE regist_004(_, _)
regist_004(self, datasetList) ==
    IF datasetList = <<>> THEN self
    ELSE regist_004(registOne_004(self, Head(datasetList)), Tail(datasetList))

\* oiddb.regist(datasetList) of part_004
Regist_004(datasetList) ==
    /\ _instance # 0
    /\ ret = NoCall
    /\ \E r \in {regist_004(this, datasetList)} :
        /\ _dbOID2NAME' = r._dbOID2NAME
        /\ _dbNAME2OID' = r._dbNAME2OID
        /\ _dbSHORT2NAME' = r._dbSHORT2NAME
        /\ _dbNAME2SHORT' = r._dbNAME2SHORT
        /\ _dbALIAS' = r._dbALIAS
        /\ _setlist' = r._setlist
    /\ UNCHANGED <<_instance, created, _uuid, ret, merged, pairs>>

Next_004 ==
    \/ instance
    \/ \E datasetList \in RegistArgs_004 : Regist_004(datasetList)

Spec_004 == Init /\ [][Next_004]_vars

-----------------------------------------------------------------------------
(* Registration claims *)

\* C1 (SpecHistory): a regist call with a data set whose set name is that of a
\* data set an earlier regist call merged leaves the five tables as they were,
\* whatever the data set holds.
C1_SkipBySetName ==
    \A d \in DataSets :
        d.setname \in merged => Tables(regist(this, <<d>>)) = tables

\* C2: in each of the five tables a key, once bound, stays bound to the same
\* value over every step.
C2_FirstRegisteredWins ==
    [][\A i \in 1..5 : \A k \in DOMAIN tables[i] :
            k \in DOMAIN tables'[i] /\ tables'[i][k] = tables[i][k]]_vars

\* a later pair ("n1","o2") and a later short ("s1","n2") met the bound keys
\* "n1" and "s1": they were kept, the new keys "o2" and "n2" were added
C2_Witness ==
    /\ Get(_dbNAME2OID, "n1") = "o1" /\ Get(_dbOID2NAME, "o2") = "n1"
    /\ Get(_dbSHORT2NAME, "s1") = "n1" /\ Get(_dbNAME2SHORT, "n2") = "s1"
    /\ Get(_dbALIAS, "a1") = "n1"

\* C3 as stated: after regist has merged the data sets of a list, every
\* (name, oid) pair of theirs round-trips through nametooid and oidtoname.
C3_RoundTrip ==
    _instance # 0 =>
        \A L \in RegistArgs : \E after \in {regist(this, L)} :
            \A k \in 1..Len(pairsOf(L)) :
                /\ nametooid(after, pairsOf(L)[k][1]) = pairsOf(L)[k][2]
                /\ oidtoname(after, pairsOf(L)[k][2]) = pairsOf(L)[k][1]

\* C3 as amended: after the merge both keys of every pair exist; nametooid(name)
\* is oid for a pair that was the first to bring its name, when the name is no
\* alias key; oidtoname(oid) is name for a pair that was the first to bring its
\* OID.
C3_RoundTripOfFirst ==
    _instance # 0 =>
        \A L \in RegistArgs : \E after \in {regist(this, L)} :
            \E P \in {pairsOf(L)} : \A k \in 1..Len(P) :
                /\ P[k][1] \in DOMAIN after._dbNAME2OID
                /\ P[k][2] \in DOMAIN after._dbOID2NAME
                /\ ( /\ P[k][1] \notin DOMAIN _dbNAME2OID
                     /\ \A m \in 1..(k - 1) : P[m][1] # P[k][1]
                     /\ P[k][1] \notin DOMAIN after._dbALIAS )
                   => nametooid(after, P[k][1]) = P[k][2]
                /\ ( /\ P[k][2] \notin DOMAIN _dbOID2NAME
                     /\ \A m \in 1..(k - 1) : P[m][2] # P[k][2] )
                   => oidtoname(after, P[k][2]) = P[k][1]

\* both names were registered with the OID "o1": "n1" came first and owns it
C3_Witness ==
    /\ Get(_dbNAME2OID, "n1") = "o1" /\ Get(_dbNAME2OID, "n2") = "o1"
    /\ oidtoname(this, "o1") = "n1" /\ nametooid(this, "n2") = "o1"

\* C4: regist(L) called again right after regist(L) changes none of the five
\* tables.
C4_Idempotent ==
    _instance # 0 =>
        \A L \in RegistArgs : \E once \in {regist(this, L)} :
            Tables(regist(once, L)) = Tables(once)

\* the registry is what regist of a list of two data sets with clashing pairs
\* made of the fresh object
C4_Witness ==
    /\ _instance # 0
    /\ \E L \in RegistArgs :
        /\ Len(L) = 2
        /\ Len(pairsOf(L)) = 2
        /\ pairsOf(L)[1][1] = pairsOf(L)[2][1]
        /\ pairsOf(L)[1][2] # pairsOf(L)[2][2]
        /\ Tables(regist(Fresh, L)) = tables

\* C5 as stated: once nametooid(x) returns an OID, it returns that OID after
\* every later step.
C5_LookupStable ==
    [][\A x \in NameArgs :
            nametooid(this, x) # Undefined
                => nametooid(this', x) = nametooid(this, x)]_vars

\* C5 as amended: once nametooid(x) returns an OID, it returns that OID after
\* every later step, except a step that makes x itself a new alias key.
C5_LookupStableUnlessAliased ==
    [][\A x \in NameArgs :
            ( /\ nametooid(this, x) # Undefined
              /\ (x \in DOMAIN _dbALIAS \/ x \notin DOMAIN _dbALIAS') )
                => nametooid(this', x) = nametooid(this, x)]_vars

\* "a1" resolves through its alias, and a second alias and a second name have
\* been added since
C5_Witness ==
    /\ nametooid(this, "a1") = "o1"
    /\ nametooid(this, "n2") = "o2"
    /\ Get(_dbALIAS, "n1") = "n2"

-----------------------------------------------------------------------------
(* Lookup claims (SpecLookup): ret holds the call the client made, its       *)
(* arguments and the value it got; the tables are those the call ran on.     *)

\* C6: every oidtoname call returns oidToName[oid] when oid is a key of the
\* table; when it is not, it returns oid itself, or undefined when the caller
\* passed true as the second argument.
C6_OidtonameFallback ==
    ret.op = "oidtoname" =>
        ret.value = IF ret.arg \in DOMAIN _dbOID2NAME THEN _dbOID2NAME[ret.arg]
                    ELSE IF ret.useUndef THEN Undefined ELSE ret.arg

\* C7: every oidtoshort call returns oid itself (undefined in strict mode) when
\* oid has no name; otherwise, n being the name, nameToShort[n] when n has a
\* short and n when it has none, with or without the strict flag.
C7_OidtoshortFallback ==
    ret.op = "oidtoshort" =>
        ret.value = IF ret.arg \notin DOMAIN _dbOID2NAME
                    THEN (IF ret.useUndef THEN Undefined ELSE ret.arg)
                    ELSE IF _dbOID2NAME[ret.arg] \in DOMAIN _dbNAME2SHORT
                         THEN _dbNAME2SHORT[_dbOID2NAME[ret.arg]]
                         ELSE _dbOID2NAME[ret.arg]

\* C8: every nametoshort call without the strict flag returns nameToShort[name]
\* when name is a key of the table and name itself when it is not.
C8_NametoshortFallback ==
    (ret.op = "nametoshort" /\ ~ret.useUndef) =>
        ret.value = IF ret.arg \in DOMAIN _dbNAME2SHORT THEN _dbNAME2SHORT[ret.arg]
                    ELSE ret.arg

\* C9: every shorttoname call returns shortToName[s] when s is a key of the
\* table; when it is not, it returns s itself, or undefined when the caller
\* passed true as the second argument.
C9_ShorttonameFallback ==
    ret.op = "shorttoname" =>
        ret.value = IF ret.arg \in DOMAIN _dbSHORT2NAME THEN _dbSHORT2NAME[ret.arg]
                    ELSE IF ret.useUndef THEN Undefined ELSE ret.arg

\* C10: every nametooid call returns nameToOid[aliasToName[x]] when x is a key
\* of aliasToName and nameToOid[x] when it is not; it returns undefined, never
\* x, when the name it resolved to is no key of nameToOid.
C10_NametooidAliasFirst ==
    ret.op = "nametooid" =>
        \E resolved \in {IF ret.arg \in DOMAIN _dbALIAS THEN _dbALIAS[ret.arg]
                         ELSE ret.arg} :
            /\ resolved \in DOMAIN _dbNAME2OID => ret.value = _dbNAME2OID[resolved]
            /\ resolved \notin DOMAIN _dbNAME2OID =>
                    ret.value = Undefined /\ ret.value # ret.arg

\* "n1" is a name with the OID "o1" and an alias of "n2": the call went through
\* the alias and returned the OID of "n2"
C10_Witness ==
    /\ ret.op = "nametooid" /\ ret.arg = "n1"
    /\ Get(_dbNAME2OID, "n1") = "o1"
    /\ Get(_dbALIAS, "n1") = "n2"
    /\ ret.value = "o2"

\* C11: every shorttooid call returns nameToOid[shortToName[s]] when s is a key
\* of shortToName and shortToName[s] a key of nameToOid; when either step fails
\* it returns undefined, never s.
C11_ShorttooidMiss ==
    ret.op = "shorttooid" =>
        IF ret.arg \in DOMAIN _dbSHORT2NAME
              /\ _dbSHORT2NAME[ret.arg] \in DOMAIN _dbNAME2OID
        THEN ret.value = _dbNAME2OID[_dbSHORT2NAME[ret.arg]]
        ELSE ret.value = Undefined /\ ret.value # ret.arg

\* the short "s1" resolved to the name "n2", which has no OID: the second step
\* failed while "n1" and "s2" are registered
C11_Witness ==
    /\ ret.op = "shorttooid" /\ ret.arg = "s1"
    /\ Get(_dbSHORT2NAME, "s1") = "n2"
    /\ "n2" \notin DOMAIN _dbNAME2OID
    /\ Get(_dbNAME2OID, "n1") = "o1"
    /\ ret.value = Undefined

-----------------------------------------------------------------------------
(* Object and set-name claims *)

\* C12: at most one object is ever built; once it exists every step - an
\* access to instance, a regist call, a lookup - finds the same object with the
\* same uuid, and every entry its tables hold is still there afterwards.
C12_Singleton ==
    [][ /\ created' <= 1
        /\ _instance' = created' /\ _uuid' = created'
        /\ _instance # 0 =>
            /\ _instance' = _instance /\ _uuid' = _uuid /\ created' = created
            /\ \A i \in 1..5 : \A k \in DOMAIN tables[i] :
                    Get(tables'[i], k) = tables[i][k] ]_vars

\* the one object holds a registered pair and a lookup, made after regist,
\* has returned it
C12_Witness ==
    /\ created = 1 /\ _instance = 1 /\ _uuid = 1
    /\ Get(_dbNAME2OID, "n2") = "o2"
    /\ ret.op = "nametooid" /\ ret.arg = "n2" /\ ret.value = "o2"

\* C13 (SpecHistory): _setlist holds the set name of every data set whose
\* entries registOne has merged.
C13_SetNameRecorded ==
    \A sn \in merged : includes(_setlist, sn)

-----------------------------------------------------------------------------
(* Merge claims *)

\* C14 as stated: a regist call binds an OID in oidToName only to a name that
\* the call has newly inserted into nameToOid; a pair whose name is already a
\* key changes neither table.
C14_PairAsUnit ==
    [][\A oid \in (DOMAIN _dbOID2NAME') \ (DOMAIN _dbOID2NAME) :
            _dbOID2NAME'[oid] \notin DOMAIN _dbNAME2OID]_vars

\* C14 as amended: the two directions of a pair are inserted independently,
\* each keyed on its own key: merging the pair (name, oid) sets
\* nameToOid[name] = oid exactly when name is no key of nameToOid and sets
\* oidToName[oid] = name exactly when oid is no key of oidToName, whatever the
\* other test said; the other three tables stay as they are.
C14_PairByEachKey ==
    _instance # 0 =>
        \A name \in Names, oid \in Oids, sn \in SetNames :
            \E after \in {regist(this, <<[setname |-> sn,
                                           nametooid |-> <<<<name, oid>>>>]>>)} :
                /\ after._dbNAME2OID = IF name \in DOMAIN _dbNAME2OID THEN _dbNAME2OID
                                       ELSE Put(_dbNAME2OID, name, oid)
                /\ after._dbOID2NAME = IF oid \in DOMAIN _dbOID2NAME THEN _dbOID2NAME
                                       ELSE Put(_dbOID2NAME, oid, name)
                /\ after._dbSHORT2NAME = _dbSHORT2NAME
                /\ after._dbNAME2SHORT = _dbNAME2SHORT
                /\ after._dbALIAS = _dbALIAS

\* the pair ("n1","o2") met the bound name "n1": nameToOid kept "o1" and
\* oidToName gained "o2"; the pair ("n2","o1") met the bound OID "o1"
C14_Witness ==
    /\ Get(_dbNAME2OID, "n1") = "o1" /\ Get(_dbOID2NAME, "o1") = "n1"
    /\ Get(_dbOID2NAME, "o2") = "n1"
    /\ Get(_dbNAME2OID, "n2") = "o1"

\* C15: regist(L) leaves the tables the calls regist([D1]), ..., regist([Dn])
\* made one after another leave; and a key that was not bound before the call
\* ends bound to a value of the first data set of L that brings it, whatever
\* the later data sets of L say for it.
C15_ListOrder ==
    _instance # 0 =>
        \A p \in RegistArgsWriters : \E after \in {Tables(regist(this, p[1]))} :
            /\ after = Tables(oneByOne(this, p[1]))
            /\ \A w \in p[2] :
                    w[2] \notin DOMAIN tables[w[1]] => Get(after[w[1]], w[2]) \in w[3]

\* the registry is what regist made of the fresh object and a list whose two
\* data sets bind the alias "a1" to different names: the first one's is kept
C15_Witness ==
    /\ _instance # 0
    /\ \E L \in RegistArgs :
        /\ Len(L) = 2
        /\ <<"a1", "n1">> \in entriesFor(L[1], 5)
        /\ <<"a1", "n2">> \in entriesFor(L[2], 5)
        /\ Tables(regist(Fresh, L)) = tables
    /\ Get(_dbALIAS, "a1") = "n1"

\* C16 (Spec_004): in the oidtoname-keyed revision a name that is a key of
\* nameToOid or of nameToShort keeps its value over every regist call, also
\* when the call brings a new OID or a new short for that name.
C16_FirstWins_004 ==
    [][ /\ \A name \in DOMAIN _dbNAME2OID :
                Get(_dbNAME2OID', name) = _dbNAME2OID[name]
        /\ \A name \in DOMAIN _dbNAME2SHORT :
                Get(_dbNAME2SHORT', name) = _dbNAME2SHORT[name] ]_vars

\* C17 (SpecPairs): when the pairs merged so far give no name two OIDs and no
\* OID two names, and no alias key is a key of nameToOid, every pair merged so
\* far round-trips through nametooid and oidtoname.
C17_ConditionalRoundTrip ==
    ( /\ \A p, q \in pairs : (p[1] = q[1] \/ p[2] = q[2]) => p = q
      /\ (DOMAIN _dbALIAS) \cap (DOMAIN _dbNAME2OID) = {} )
    => \A p \in pairs : nametooid(this, p[1]) = p[2] /\ oidtoname(this, p[2]) = p[1]

\* two pairs without a clash have been merged and the registry holds an alias
\* whose key is no name
C17_Witness ==
    /\ pairs = {<<"n1", "o2">>, <<"n2", "o1">>}
    /\ Get(_dbALIAS, "a1") = "n1"
    /\ nametooid(this, "n1") = "o2" /\ oidtoname(this, "o1") = "n2"

\* C18: every value of oidToName is a key of nameToOid and every value of
\* nameToOid a key of oidToName; every value of shortToName is a key of
\* nameToShort and every value of nameToShort a key of shortToName.
C18_CrossTableClosure ==
    /\ \A oid \in DOMAIN _dbOID2NAME : _dbOID2NAME[oid] \in DOMAIN _dbNAME2OID
    /\ \A name \in DOMAIN _dbNAME2OID : _dbNAME2OID[name] \in DOMAIN _dbOID2NAME
    /\ \A short \in DOMAIN _dbSHORT2NAME : _dbSHORT2NAME[short] \in DOMAIN _dbNAME2SHORT
    /\ \A name \in DOMAIN _dbNAME2SHORT : _dbNAME2SHORT[name] \in DOMAIN _dbSHORT2NAME

\* the paired tables are no inverses of each other: "n2" maps to "o1", which
\* maps back to "n1", and "s2" maps to "n1", which maps back to "s1"
C18_Witness ==
    /\ Get(_dbNAME2OID, "n2") = "o1" /\ Get(_dbOID2NAME, "o1") = "n1"
    /\ Get(_dbSHORT2NAME, "s2") = "n1" /\ Get(_dbNAME2SHORT, "n1") = "s1"

\* C19: for two data sets A and B with different set names that share no name,
\* OID, short, short-target name or alias key, regist([A, B]) and
\* regist([B, A]) leave the same five tables, whatever the registry held.
C19_OrderIndependent ==
    _instance # 0 =>
        \A p \in DisjointDataSets :
            Tables(regist(this, <<p[1], p[2]>>)) = Tables(regist(this, <<p[2], p[1]>>))

\* the registry is what regist([A, B]) made of the fresh object for an A that
\* holds the alias "a1" of "n2" and the pair ("n1","o1"), and a B that holds the
\* pair ("n2","o2")
C19_Witness ==
    /\ _instance # 0
    /\ \E p \in DisjointDataSets :
        /\ <<"a1", "n2">> \in entriesFor(p[1], 5)
        /\ <<"n1", "o1">> \in entriesFor(p[1], 2)
        /\ <<"n2", "o2">> \in entriesFor(p[2], 2)
        /\ Tables(regist(Fresh, <<p[1], p[2]>>)) = tables

-----------------------------------------------------------------------------
(* Alias chains (SpecLookup) *)

\* C20: when a is an alias of b and b itself an alias of c, nametooid(a)
\* returns nameToOid[b], undefined when b is no key of nameToOid, and aliasto(a)
\* returns b: the chain is not followed to c.
C20_AliasOneLevel ==
    ( /\ ret.op \in {"nametooid", "aliasto"}
      /\ ret.arg \in DOMAIN _dbALIAS
      /\ _dbALIAS[ret.arg] \in DOMAIN _dbALIAS )
    => \E b \in {_dbALIAS[ret.arg]} :
            /\ ret.op = "nametooid" =>
                    ret.value = IF b \in DOMAIN _dbNAME2OID THEN _dbNAME2OID[b]
                                ELSE Undefined
            /\ ret.op = "aliasto" => ret.value = b

\* "a1" is an alias of "n1" and "n1" an alias of "n2"; "n1" was registered as an
\* alias target without being a key of nameToOid, "n2" has the OID "o2":
\* nametooid("a1") returned undefined
C20_Witness ==
    /\ Get(_dbALIAS, "a1") = "n1" /\ Get(_dbALIAS, "n1") = "n2"
    /\ "n1" \notin DOMAIN _dbNAME2OID
    /\ Get(_dbNAME2OID, "n2") = "o2"
    /\ ret.op = "nametooid" /\ ret.arg = "a1" /\ ret.value = Undefined

====
